---- MODULE Spec2Model ----
(***************************************************************************)
(* Model of fix_html.py: read index.html, insert a CSS rule after the      *)
(* .historyItem{...} block (re.sub), insert a script snippet after every   *)
(* row.className = "historyItem"; (str.replace), write the file back and   *)
(* print a confirmation.                                                   *)
(*                                                                         *)
(* A text is a sequence of tokens.  Each token is a piece of text that the *)
(* two searches can only see as a whole: the selector ".historyItem", the  *)
(* braces "{" and "}", the literal statement, and pieces of other text     *)
(* that contain neither a brace nor a part of the two markers.  The regex  *)
(* class [^}] matches every character of every token but "}".              *)
(***************************************************************************)
EXTENDS Integers, Sequences, FiniteSets

VARIABLES
    pc,       \* position of the run in the module body
    file,     \* contents of index.html on disk
    content,  \* the variable `content`
    prev,     \* value of `content` before the last transformation
    orig,     \* the text returned by f.read()
    disk0,    \* contents of the file when the run started
    steps,    \* transformations applied so far, in order
    err,      \* "none", or which I/O call raised
    reads,    \* completed f.read() calls
    opens,    \* successful open(..., 'w') calls (each truncates the file)
    writes,   \* completed f.write() calls
    prints    \* completed print() calls

vars == <<pc, file, content, prev, orig, disk0, steps, err, reads, opens, writes, prints>>

----------------------------------------------------------------------------
(* Tokens *)

P   == ".historyItem"
LB  == "{"
RB  == "}"
LIT == "row.className = \"historyItem\";"
X   == "x"

\* css_to_add with the selector mistyped as .historyItem: the inserted block
\* is itself an occurrence of the marker pattern
css_to_add_block ==
    << "\n    ", P, LB, "\n      background: #f8f9fa;\n    ", RB >>

\* css_to_add, line 7-10: newline, the selector .historyItem.older, the body
css_to_add ==
    << "\n    ", P, ".older", LB, "\n      background: #f8f9fa;\n    ", RB >>

\* js_to_add, line 19-24
js_to_add ==
    << "\n      \n      const ageHours = it.since ? (Date.now() - new Date(it.since).getTime()) / (1000 * 60 * 60) : 0;\n      if (ageHours > 24) ",
       LB, "\n        row.classList.add(\"older\");\n      ", RB >>

----------------------------------------------------------------------------
(* Bounds and inputs *)

MaxSegs == 4
MaxStepSegs == 3
MaxSteps == 3

\* fragments the input texts are concatenated from
Frags == { <<P, LB>>, <<RB>>, <<LIT>>, <<X>>, <<LB>>, <<P>>, <<P, LB, X, RB>> }

RECURSIVE Texts(_)
Texts(n) ==
    IF n = 0 THEN { <<>> }
    ELSE LET S == Texts(n - 1) IN S \cup { s \o f : s \in S, f \in Frags }

Inputs == Texts(MaxSegs)
StepInputs == Texts(MaxStepSegs)

----------------------------------------------------------------------------
(* re.sub(pattern, replacement, content), line 14-16 *)

\* [^}]+ is greedy: from k it consumes every token that is not "}".
\* The result is the first index it does not consume.
RECURSIVE SpanNotRB(_, _)
SpanNotRB(t, k) ==
    IF k <= Len(t) /\ t[k] # RB THEN SpanNotRB(t, k + 1) ELSE k

\* pattern with [^}]* in place of [^}]+: an empty body matches
pattern_star(t, i) ==
    IF i + 1 <= Len(t) /\ t[i] = P /\ t[i + 1] = LB
    THEN LET j == SpanNotRB(t, i + 2)
         IN  IF j <= Len(t) THEN j ELSE 0
    ELSE 0

\* pattern with [^{}]+ in place of [^}]+: a body holding "{" does not match
RECURSIVE SpanNoBrace(_, _)
SpanNoBrace(t, k) ==
    IF k <= Len(t) /\ t[k] # RB /\ t[k] # LB THEN SpanNoBrace(t, k + 1) ELSE k

pattern_nobrace(t, i) ==
    IF i + 1 <= Len(t) /\ t[i] = P /\ t[i + 1] = LB
    THEN LET j == SpanNoBrace(t, i + 2)
         IN  IF j > i + 2 /\ j <= Len(t) /\ t[j] = RB THEN j ELSE 0
    ELSE 0

\* pattern without the \{ after the selector
pattern_nolb(t, i) ==
    IF t[i] = P
    THEN LET j == SpanNotRB(t, i + 1)
         IN  IF j > i + 1 /\ j <= Len(t) THEN j ELSE 0
    ELSE 0

\* pattern = (\.historyItem\{[^}]+\}) tried at index i: the index of the
\* closing "}" of the match, 0 when the pattern does not match at i.
\* After the greedy span the next token is "}" or the end of the text;
\* backtracking cannot help, every token given back is not "}".
pattern(t, i) ==
    IF i + 1 <= Len(t) /\ t[i] = P /\ t[i + 1] = LB
    THEN LET j == SpanNotRB(t, i + 2)
         IN  IF j > i + 2 /\ j <= Len(t) THEN j ELSE 0
    ELSE 0

\* replacement with the two parts swapped: the CSS goes before the block
replacement_before(g) == css_to_add \o g

\* replacement = r'\1' + css_to_add, applied to group 1
replacement(g) == g \o css_to_add

\* re.sub without count: scan left to right, replace every non-overlapping
\* match, copy everything else
RECURSIVE resub(_, _)
resub(t, i) ==
    IF i > Len(t) THEN <<>>
    ELSE LET e == pattern(t, i)
         IN  IF e # 0
             THEN replacement(SubSeq(t, i, e)) \o resub(t, e + 1)
             ELSE <<t[i]>> \o resub(t, i + 1)

css_step(t) == resub(t, 1)

----------------------------------------------------------------------------
(* content.replace(old, old + js_to_add), line 26-27 *)

\* str.replace with count=1: the first occurrence only
replace_first(t, i) ==
    IF \E k \in i..Len(t) : t[k] = LIT
    THEN LET k == CHOOSE k \in i..Len(t) : t[k] = LIT /\ \A h \in i..(k - 1) : t[h] # LIT
         IN  SubSeq(t, i, k) \o js_to_add \o SubSeq(t, k + 1, Len(t))
    ELSE SubSeq(t, i, Len(t))

\* str.replace without count: every occurrence, left to right
RECURSIVE replace(_, _)
replace(t, i) ==
    IF i > Len(t) THEN <<>>
    ELSE IF t[i] = LIT
         THEN (<<LIT>> \o js_to_add) \o replace(t, i + 1)
         ELSE <<t[i]>> \o replace(t, i + 1)

script_step(t) == replace(t, 1)

----------------------------------------------------------------------------
(* The run: module body, line 3-32 *)

Init ==
    /\ pc = "start"
    /\ file \in Inputs
    /\ disk0 = file
    /\ content = <<>>
    /\ prev = <<>>
    /\ orig = <<>>
    /\ steps = <<>>
    /\ err = "none"
    /\ reads = 0
    /\ opens = 0
    /\ writes = 0
    /\ prints = 0

\* line 3-4: open for reading and f.read() succeed
ReadOk ==
    /\ pc = "start"
    /\ content' = file
    /\ orig' = file
    /\ prev' = file
    /\ reads' = reads + 1
    /\ pc' = "read"
    /\ UNCHANGED <<file, disk0, steps, err, opens, writes, prints>>

\* the read error caught and the run carried on with an empty text
ReadFail_swallow ==
    /\ pc = "start"
    /\ err' = "read"
    /\ pc' = "read"
    /\ UNCHANGED <<file, content, prev, orig, disk0, steps, reads, opens, writes, prints>>

\* line 3-4: open or read raises; nothing catches it, the process ends
ReadFail ==
    /\ pc = "start"
    /\ err' = "read"
    /\ pc' = "failed"
    /\ UNCHANGED <<file, content, prev, orig, disk0, steps, reads, opens, writes, prints>>

\* line 16
CssStep ==
    /\ pc = "read"
    /\ prev' = content
    /\ content' = css_step(content)
    /\ steps' = Append(steps, "css")
    /\ pc' = "css"
    /\ UNCHANGED <<file, orig, disk0, err, reads, opens, writes, prints>>

\* line 26-27
ScriptStep ==
    /\ pc = "css"
    /\ prev' = content
    /\ content' = script_step(content)
    /\ steps' = Append(steps, "script")
    /\ pc' = "script"
    /\ UNCHANGED <<file, orig, disk0, err, reads, opens, writes, prints>>

\* the write placed before the script step as well
WriteOk_early ==
    /\ pc \in {"css", "script"}
    /\ file' = content
    /\ opens' = opens + 1
    /\ writes' = writes + 1
    /\ pc' = "written"
    /\ UNCHANGED <<content, prev, orig, disk0, steps, err, reads, prints>>

\* line 29-30: open for writing truncates, f.write and close succeed
WriteOk ==
    /\ pc = "script"
    /\ file' = content
    /\ opens' = opens + 1
    /\ writes' = writes + 1
    /\ pc' = "written"
    /\ UNCHANGED <<content, prev, orig, disk0, steps, err, reads, prints>>

\* line 29: open(..., 'w') raises (read-only path, directory): file untouched
WriteOpenFail ==
    /\ pc = "script"
    /\ err' = "write"
    /\ pc' = "failed"
    /\ UNCHANGED <<file, content, prev, orig, disk0, steps, reads, opens, writes, prints>>

\* the write error caught and the run carried on to the report
WriteFlushFail_swallow ==
    /\ pc = "script"
    /\ file' = <<>>
    /\ opens' = opens + 1
    /\ err' = "write"
    /\ pc' = "written"
    /\ UNCHANGED <<content, prev, orig, disk0, steps, reads, writes, prints>>

\* line 29-30: open truncated the file, then f.write or the flush on close
\* raises (disk full): the file is left truncated
WriteFlushFail ==
    /\ pc = "script"
    /\ file' = <<>>
    /\ opens' = opens + 1
    /\ err' = "write"
    /\ pc' = "failed"
    /\ UNCHANGED <<content, prev, orig, disk0, steps, reads, writes, prints>>

\* line 32, then the interpreter exits with status 0
Report ==
    /\ pc = "written"
    /\ prints' = prints + 1
    /\ pc' = "done"
    /\ UNCHANGED <<file, content, prev, orig, disk0, steps, err, reads, opens, writes>>

Next ==
    \/ ReadOk
    \/ ReadFail
    \/ CssStep
    \/ ScriptStep
    \/ WriteOk
    \/ WriteOpenFail
    \/ WriteFlushFail
    \/ Report

Spec == Init /\ [][Next]_vars

----------------------------------------------------------------------------
(* The two transformations as functions of the text, applied in any order  *)
(* and any number of times up to MaxSteps                                  *)

StepInit ==
    /\ pc = "steps"
    /\ file \in StepInputs
    /\ disk0 = file
    /\ content = file
    /\ prev = file
    /\ orig = file
    /\ steps = <<>>
    /\ err = "none"
    /\ reads = 0
    /\ opens = 0
    /\ writes = 0
    /\ prints = 0

\* line 16 applied to the current text
ApplyCss ==
    /\ pc = "steps"
    /\ Len(steps) < MaxSteps
    /\ prev' = content
    /\ content' = css_step(content)
    /\ steps' = Append(steps, "css")
    /\ UNCHANGED <<pc, file, orig, disk0, err, reads, opens, writes, prints>>

\* line 26-27 applied to the current text
ApplyScript ==
    /\ pc = "steps"
    /\ Len(steps) < MaxSteps
    /\ prev' = content
    /\ content' = script_step(content)
    /\ steps' = Append(steps, "script")
    /\ UNCHANGED <<pc, file, orig, disk0, err, reads, opens, writes, prints>>

StepNext == ApplyCss \/ ApplyScript

StepSpec == StepInit /\ [][StepNext]_vars

----------------------------------------------------------------------------
(* Vocabulary of the properties, stated without the scan of resub *)

\* the occurrences of the marker pattern in t: <<i, e>> with .historyItem{
\* at i, the next "}" at e, and at least one token between them
Blocks(t) ==
    { b \in (1..Len(t)) \X (1..Len(t)) :
        /\ t[b[1]] = P
        /\ b[1] + 1 <= Len(t)
        /\ t[b[1] + 1] = LB
        /\ b[2] >= b[1] + 3
        /\ t[b[2]] = RB
        /\ \A k \in (b[1] + 2)..(b[2] - 1) : t[k] # RB }

TheBlock(t) == CHOOSE b \in Blocks(t) : TRUE

\* the block that starts first
FirstBlock(t) == CHOOSE b \in Blocks(t) : \A c \in Blocks(t) : b[1] <= c[1]

TwoBlocks(t) == \E a \in Blocks(t), b \in Blocks(t) : a[2] < b[1]

\* exactly one occurrence of the marker pattern, and no "{" in its body
OneBraceFreeBlock(t) ==
    /\ Cardinality(Blocks(t)) = 1
    /\ \A k \in (TheBlock(t)[1] + 2)..(TheBlock(t)[2] - 1) : t[k] # LB

InsertAt(t, e, s) == SubSeq(t, 1, e) \o s \o SubSeq(t, e + 1, Len(t))

Occurrences(t) == { k \in 1..Len(t) : t[k] = LIT }

RECURSIVE Copies(_)
Copies(n) == IF n = 0 THEN <<>> ELSE css_to_add \o Copies(n - 1)

----------------------------------------------------------------------------
\* C1: when the text holds two or more non-overlapping .historyItem{...}
\* blocks, the CSS step inserts the CSS block after the first one only and
\* leaves every later block untouched.
C1_FirstMatchOnly ==
    (pc = "css" /\ TwoBlocks(orig))
        => content = InsertAt(orig, FirstBlock(orig)[2], css_to_add)

\* C2: the script step keeps the N occurrences of the literal, puts one copy
\* of the injected block right after each, keeps every other token in place
\* and order, and returns the input when N = 0.
C2_ScriptGlobal ==
    (steps # <<>> /\ steps[Len(steps)] = "script") =>
        LET J == Len(js_to_add)
            N == Cardinality(Occurrences(prev))
            f(i) == i + J * Cardinality({ k \in Occurrences(prev) : k < i })
        IN  /\ Len(content) = Len(prev) + N * J
            /\ \A i \in 1..Len(prev) :
                  /\ content[f(i)] = prev[i]
                  /\ prev[i] = LIT => SubSeq(content, f(i) + 1, f(i) + J) = js_to_add
            /\ Cardinality(Occurrences(content)) = N
            /\ N = 0 => content = prev

C2_Witness ==
    /\ pc = "script"
    /\ Cardinality(Occurrences(prev)) >= 2
    /\ \E k \in 1..Len(prev) : prev[k] = X

\* C3: when the text holds exactly one occurrence of the marker pattern and
\* its body has no brace, the CSS step returns the text before the block,
\* the block, the CSS block, and the text after the block, each unchanged.
C3_InsertionFrame ==
    (pc = "css" /\ OneBraceFreeBlock(orig)) =>
        LET i == TheBlock(orig)[1]
            e == TheBlock(orig)[2]
            n == Len(css_to_add)
        IN  /\ Len(content) = Len(orig) + n
            /\ SubSeq(content, 1, i - 1) = SubSeq(orig, 1, i - 1)
            /\ SubSeq(content, i, e) = SubSeq(orig, i, e)
            /\ SubSeq(content, e + 1, e + n) = css_to_add
            /\ SubSeq(content, e + n + 1, Len(content)) = SubSeq(orig, e + 1, Len(orig))

C3_Witness ==
    /\ pc = "css"
    /\ OneBraceFreeBlock(orig)
    /\ TheBlock(orig)[1] > 1
    /\ TheBlock(orig)[2] < Len(orig)

\* the first .historyItem{ that some later "}" follows, and that "}"
OpenAt(t, i) == t[i] = P /\ i + 1 <= Len(t) /\ t[i + 1] = LB
ClosedLater(t, i) == \E e \in (i + 2)..Len(t) : t[e] = RB
NextRB(t, i) ==
    CHOOSE e \in (i + 2)..Len(t) :
        t[e] = RB /\ \A k \in (i + 2)..(e - 1) : t[k] # RB
InsertedAfter(t, o, e) ==
    /\ Len(o) >= e + Len(css_to_add)
    /\ SubSeq(o, 1, e) = SubSeq(t, 1, e)
    /\ SubSeq(o, e + 1, e + Len(css_to_add)) = css_to_add

\* C4 as stated: whenever .historyItem{ is followed somewhere later by "}",
\* the CSS step matches from the first such .historyItem{ to the next "}",
\* whatever lies between (an empty body included), and inserts the CSS
\* block right after that "}".
C4_AnyBody ==
    (pc = "css" /\ \E i \in 1..Len(orig) : OpenAt(orig, i) /\ ClosedLater(orig, i)) =>
        LET i == CHOOSE i \in 1..Len(orig) :
                    /\ OpenAt(orig, i) /\ ClosedLater(orig, i)
                    /\ \A h \in 1..(i - 1) : ~(OpenAt(orig, h) /\ ClosedLater(orig, h))
        IN  InsertedAfter(orig, content, NextRB(orig, i))

\* C4 amended: the same for the first .historyItem{ that is followed by at
\* least one token other than "}" and then, somewhere later, by "}"; the
\* body may hold "{".
NonEmptyAt(t, i) == OpenAt(t, i) /\ i + 2 <= Len(t) /\ t[i + 2] # RB /\ ClosedLater(t, i)

C4_NonEmptyBody ==
    (pc = "css" /\ \E i \in 1..Len(orig) : NonEmptyAt(orig, i)) =>
        LET i == CHOOSE i \in 1..Len(orig) :
                    /\ NonEmptyAt(orig, i)
                    /\ \A h \in 1..(i - 1) : ~NonEmptyAt(orig, h)
        IN  InsertedAfter(orig, content, NextRB(orig, i))

C4_Witness ==
    /\ pc = "css"
    /\ \E i \in 1..Len(orig) :
          /\ NonEmptyAt(orig, i)
          /\ \E k \in (i + 2)..(NextRB(orig, i) - 1) : orig[k] = LB
    /\ \E h \in 1..Len(orig) : OpenAt(orig, h) /\ h + 2 <= Len(orig) /\ orig[h + 2] = RB

\* C5: when the marker pattern does not occur in the text, the CSS step
\* returns the text unchanged, raises nothing, and the run goes on to the
\* script step and the write.
C5_NoOpOnMiss ==
    /\ (pc = "css" /\ Blocks(orig) = {}) =>
           content = orig /\ err = "none" /\ ENABLED ScriptStep
    /\ (pc = "script" /\ Blocks(orig) = {}) =>
           prev = orig /\ err = "none" /\ ENABLED WriteOk

C5_Witness ==
    /\ pc = "css"
    /\ Blocks(orig) = {}
    /\ \E i \in 1..Len(orig) : OpenAt(orig, i)

\* C6: from a text with exactly one brace-free block, k applications of the
\* CSS step give the block followed by exactly k copies of the CSS block;
\* each application inserts right after the original block, and no inserted
\* block is ever matched.
C6_ReapplyDuplicates ==
    (/\ steps # <<>>
     /\ \A k \in 1..Len(steps) : steps[k] = "css"
     /\ OneBraceFreeBlock(orig)) =>
        LET e == TheBlock(orig)[2]
        IN  /\ content = InsertAt(orig, e, Copies(Len(steps)))
            /\ content = InsertAt(prev, e, css_to_add)
            /\ Blocks(content) = Blocks(orig)

C6_Witness ==
    /\ Len(steps) >= 2
    /\ \A k \in 1..Len(steps) : steps[k] = "css"
    /\ OneBraceFreeBlock(orig)
    /\ TheBlock(orig)[2] < Len(orig)

\* C7: when the read fails the run ends with the error, the file is never
\* opened for writing, its contents are those before the run, and nothing
\* is printed.
C7_ReadFailureNoWrite ==
    err = "read" =>
        /\ pc = "failed"
        /\ file = disk0
        /\ opens = 0
        /\ writes = 0
        /\ prints = 0
        /\ ~ENABLED Next

C7_Witness == err = "read" /\ pc = "failed" /\ disk0 # <<>>

\* C8: the file is read once, the CSS step and then the script step are
\* applied, and only then is the file written, at most once; the file never
\* holds a text with one step applied, and the text written is
\* script_step(css_step(text read)).
C8_Ordering ==
    /\ reads <= 1 /\ opens <= 1 /\ writes <= 1
    /\ opens = 0 => file = disk0
    /\ opens = 1 => steps = <<"css", "script">> /\ reads = 1
    /\ writes = 1 =>
          /\ orig = disk0
          /\ file = script_step(css_step(orig))
    /\ (opens = 1 /\ writes = 0) => file = <<>> /\ err = "write"
    /\ steps \in { <<>>, <<"css">>, <<"css", "script">> }
    /\ steps # <<>> => reads = 1

C8_Witness ==
    /\ writes = 1
    /\ css_step(orig) # orig
    /\ file # css_step(orig)
    /\ file # script_step(orig)

\* C9: the confirmation is printed, and the process ends with success, if
\* and only if the read and the write both completed; a write failure after
\* a successful read ends the run with the error and no confirmation; the
\* confirmation is printed at most once and never before the write.
C9_SuccessReport ==
    /\ prints <= 1
    /\ prints = 1 <=> pc = "done"
    /\ prints = 1 => reads = 1 /\ writes = 1 /\ err = "none"
    /\ err # "none" => pc = "failed" /\ prints = 0 /\ ~ENABLED Next
    /\ err = "write" => reads = 1 /\ writes = 0
    /\ ~ENABLED Next =>
          /\ prints = 1 <=> (reads = 1 /\ writes = 1)
          /\ pc = "done" <=> err = "none"

C9_Witness == err = "write" /\ reads = 1 /\ opens = 1 /\ pc = "failed" /\ file # disk0

\* no occurrence of the literal lies after a .historyItem{ and before the
\* next "}" that follows it (before the end of the text when none follows)
LitOutside(t) ==
    \A i \in 1..Len(t) : OpenAt(t, i) =>
        \A k \in (i + 2)..Len(t) : t[k] = LIT =>
            \E m \in (i + 2)..(k - 1) : t[m] = RB

\* C10 as stated: for every text, the CSS step then the script step gives
\* the same text as the script step then the CSS step.
C10_Independent ==
    /\ steps = <<"script", "css">> => content = script_step(css_step(orig))
    /\ steps = <<"css", "script">> => content = css_step(script_step(orig))

\* C10 amended: the two orders agree for every text in which no occurrence
\* of the literal lies between a .historyItem{ and the next "}" after it
\* (the end of the text when no "}" follows).
\* Under that condition the script step keeps the occurrences of the marker
\* pattern, and the CSS step always keeps the occurrences of the literal.
C10_CommuteOutside ==
    /\ LitOutside(orig) =>
          /\ steps = <<"script", "css">> => content = script_step(css_step(orig))
          /\ steps = <<"css", "script">> => content = css_step(script_step(orig))
    /\ (steps # <<>> /\ steps[Len(steps)] = "script" /\ LitOutside(prev)) =>
          Cardinality(Blocks(content)) = Cardinality(Blocks(prev))
    /\ (steps # <<>> /\ steps[Len(steps)] = "css") =>
          Cardinality(Occurrences(content)) = Cardinality(Occurrences(prev))

C10_Witness ==
    /\ steps = <<"script", "css">>
    /\ LitOutside(orig)
    /\ Blocks(orig) # {}
    /\ Occurrences(orig) # {}
    /\ \E k \in Occurrences(orig) : k > FirstBlock(orig)[2]

====
